---- MODULE Spec2Model ----
(***************************************************************************)
(* Kibbutz (lib/kibbutz.js): aggregation of configuration fragments from   *)
(* an ordered list of asynchronous providers into one published value,     *)
(* with a first-one-in-wins deep merge.                                    *)
(*                                                                         *)
(* JavaScript values are records tagged with their kind (field t).  A      *)
(* mapping carries its own keys as a function m from key to value, an      *)
(* array its elements as a sequence e.  Mappings, arrays and dates are     *)
(* objects: each carries its identity (field ref: the operation or input   *)
(* that created the outermost object, and the path from there) and         *)
(* whether Object.freeze was applied to it (field frozen).  Two records    *)
(* with the same ref stand for the same object.                            *)
(***************************************************************************)
EXTENDS Integers, Sequences, FiniteSets, TLC

VARIABLES
  seed,     \* what the caller gave as options.value (undefined: nothing)
  value,    \* _state.get(this).value: [id, v], the published aggregate
  nextId,   \* the identity the next object created by _deepCopy gets
  calls,    \* the load() calls made so far, one record each
  events,   \* what state.emitter.emit was called with, in order
  ret,      \* how the last call of the public API returned
  ma, mb,   \* _merge(a, b): the two arguments ...
  mres      \* ... and what the call produced

vars == <<seed, value, nextId, calls, events, ret, ma, mb, mres>>

storeVars == <<seed, value, nextId, calls, events, ret>>
mergeVars == <<ma, mb, mres>>

----------------------------------------------------------------------------
(* JavaScript values                                                       *)

Undefined == [t |-> "undefined"]
Null      == [t |-> "null"]
Str(s)    == [t |-> "string", v |-> s]
Num(n)    == [t |-> "number", v |-> n]
Bool(b)   == [t |-> "boolean", v |-> b]
Fn(n)     == [t |-> "function", v |-> n]

\* The identity of an object: root names the operation or the input that
\* created the outermost object, path the keys down to this one.
Ref(root, path) == [root |-> root, path |-> path]

\* The identity literals are written with, before any is given to them.
Lit == Ref(-1, <<>>)

Date(n)   == [t |-> "date", v |-> n, ref |-> Lit, frozen |-> FALSE]
Arr(e)    == [t |-> "array", e |-> e, ref |-> Lit, frozen |-> FALSE]
Obj(m)    == [t |-> "object", m |-> m, ref |-> Lit, frozen |-> FALSE]

EmptyObj == Obj(<<>>)
EmptyArr == Arr(<<>>)

\* What a throw of TypeError leaves in place of a result.
TypeError == [t |-> "TypeError"]

IsArray(x) == x.t = "array"
IsDate(x)  == x.t = "date"
IsNull(x)  == x.t = "null"
IsObj(x)   == x.t = "object"

\* typeof x === 'object': plain objects, arrays, dates and null.
TypeofObject(x) == x.t \in {"object", "array", "date", "null"}

\* elv(x): x is neither undefined nor null.
elv(x) == x.t \notin {"undefined", "null"}

\* The property name of array index i (Object.keys of an array).
IdxKey(i) == CASE i = 1 -> "0" [] i = 2 -> "1" [] i = 3 -> "2"
               [] i = 4 -> "3" [] i = 5 -> "4" [] OTHER -> "5"

\* Object.keys(x) for a plain object or an array.
ObjectKeys(x) == IF IsArray(x) THEN {IdxKey(i) : i \in 1..Len(x.e)}
                 ELSE DOMAIN x.m

\* x[key] for an own key of a plain object or an array.
Get(x, key) == IF IsArray(x)
               THEN x.e[CHOOSE i \in 1..Len(x.e) : IdxKey(i) = key]
               ELSE x.m[key]

\* a[key] = val on a plain object.
Put(a, key, val) ==
  [a EXCEPT !.m = [k \in (DOMAIN a.m) \cup {key} |->
                     IF k = key THEN val ELSE a.m[k]]]

\* a.hasOwnProperty(key) on a plain object.
HasOwn(a, key) == key \in DOMAIN a.m

\* Some enumeration of a finite set, as a sequence.
RECURSIVE SetToSeq(_)
SetToSeq(S) == IF S = {} THEN <<>>
               ELSE LET x == CHOOSE y \in S : TRUE
                    IN <<x>> \o SetToSeq(S \ {x})

\* The identity of what sits at key (or index) key of the object ref.
Down(ref, key) == [ref EXCEPT !.path = Append(@, key)]

RECURSIVE Given(_, _)
\* The literal x as an object of its own with identity ref: what a caller
\* or a provider builds and hands over.
Given(x, ref) ==
  IF x.t = "object"
  THEN [x EXCEPT !.ref = ref,
                 !.m = [k \in DOMAIN x.m |-> Given(x.m[k], Down(ref, k))]]
  ELSE IF x.t = "array"
  THEN [x EXCEPT !.ref = ref,
                 !.e = [i \in 1..Len(x.e) |->
                          Given(x.e[i], Down(ref, IdxKey(i)))]]
  ELSE IF x.t = "date" THEN [x EXCEPT !.ref = ref]
  ELSE x

RECURSIVE Content(_)
\* What x holds, whichever objects hold it: x as a literal.
Content(x) ==
  IF x.t = "object" THEN Obj([k \in DOMAIN x.m |-> Content(x.m[k])])
  ELSE IF x.t = "array" THEN Arr([i \in 1..Len(x.e) |-> Content(x.e[i])])
  ELSE IF x.t = "date" THEN Date(x.v)
  ELSE x

\* Object.freeze(x): the object itself is marked, nothing it holds is.
freeze(x) ==
  IF x.t \in {"object", "array", "date"} THEN [x EXCEPT !.frozen = TRUE]
  ELSE x

----------------------------------------------------------------------------
(* _merge and _deepCopy                                                    *)

RECURSIVE _merge(_, _)
RECURSIVE mergeKeys(_, _, _)

\* isBObj of the loop body.
IsBObj(bval) == TypeofObject(bval) /\ ~IsDate(bval)

\* Line 111 putting bval itself under the key instead of a new object.
MadeOfSource(a, key, bval) == bval

\* a[key] = (Array.isArray(bval)) ? [] : {} (line 111): a new object.
Made(a, key, bval) ==
  [(IF IsArray(bval) THEN EmptyArr ELSE EmptyObj)
     EXCEPT !.ref = Down(a.ref, key)]

\* mergeKey without the merge into a key that a already has.
mergeKeyShallow(a, key, bval) ==
  IF IsNull(a) THEN TypeError
  ELSE IF ~HasOwn(a, key)
  THEN IF a.frozen THEN TypeError
       ELSE IF ~IsBObj(bval) THEN Put(a, key, bval)
       ELSE LET made == _merge(Made(a, key, bval), bval)
            IN IF made = TypeError THEN TypeError ELSE Put(a, key, made)
  ELSE a

\* mergeKey with the later of two dates at the same key kept.
mergeKeyLaterDate(a, key, bval) ==
  IF IsNull(a) THEN TypeError
  ELSE IF ~HasOwn(a, key)
  THEN IF a.frozen THEN TypeError
       ELSE IF ~IsBObj(bval) THEN Put(a, key, bval)
       ELSE LET made == _merge(Made(a, key, bval), bval)
            IN IF made = TypeError THEN TypeError ELSE Put(a, key, made)
  ELSE LET aval == a.m[key] IN
       IF IsDate(aval) /\ IsDate(bval) THEN Put(a, key, bval)
       ELSE IF ~TypeofObject(aval) \/ IsDate(aval) \/ ~IsBObj(bval) THEN a
       ELSE LET into == _merge(aval, bval)
            IN IF into = TypeError THEN TypeError ELSE Put(a, key, into)

\* One turn of the loop of _merge, for one key of b.  The target a is what
\* passed the tests above the loop: a plain object or null.  Under
\* 'use strict' (line 1) adding a key to a frozen object throws.
mergeKey(a, key, bval) ==
  IF IsNull(a) THEN TypeError                    \* null.hasOwnProperty
  ELSE IF ~HasOwn(a, key)
  THEN IF a.frozen THEN TypeError
       ELSE IF ~IsBObj(bval) THEN Put(a, key, bval)
       ELSE LET made == _merge(Made(a, key, bval), bval)
            IN IF made = TypeError THEN TypeError ELSE Put(a, key, made)
  ELSE LET aval == a.m[key] IN
       IF ~TypeofObject(aval) \/ IsDate(aval) \/ ~IsBObj(bval) THEN a
       ELSE LET into == _merge(aval, bval)
            IN IF into = TypeError THEN TypeError ELSE Put(a, key, into)

\* The loop of _merge over the keys of b that are left.
mergeKeys(a, b, keys) ==
  IF keys = <<>> THEN a
  ELSE LET step == mergeKey(a, Head(keys), Get(b, Head(keys)))
       IN IF step = TypeError THEN TypeError
          ELSE mergeKeys(step, b, Tail(keys))

\* _merge handing back b where one of the two is no mapping or array.
_mergeReturnsSource(a, b) ==
  IF ~TypeofObject(a) \/ IsDate(a) \/ ~TypeofObject(b) \/ IsDate(b) THEN b
  ELSE IF IsArray(a)
  THEN IF ~IsArray(b) THEN a
       ELSE IF a.frozen THEN TypeError
       ELSE [a EXCEPT !.e = a.e \o b.e]
  ELSE IF IsNull(b) THEN TypeError
  ELSE mergeKeys(a, b, SetToSeq(ObjectKeys(b)))

\* _merge with the elements of b put in front of those of a.
_mergeUnshift(a, b) ==
  IF ~TypeofObject(a) \/ IsDate(a) \/ ~TypeofObject(b) \/ IsDate(b) THEN a
  ELSE IF IsArray(a)
  THEN IF ~IsArray(b) THEN a
       ELSE IF a.frozen THEN TypeError
       ELSE [a EXCEPT !.e = b.e \o a.e]
  ELSE IF IsNull(b) THEN TypeError
  ELSE mergeKeys(a, b, SetToSeq(ObjectKeys(b)))

\* _merge(a, b): a after b was merged into it, or TypeError where the code
\* throws (Object.keys(null), null.hasOwnProperty, a push onto a frozen
\* array).  The elements of b are pushed as they are: an element that is an
\* object is then held by both arrays.
_merge(a, b) ==
  IF ~TypeofObject(a) \/ IsDate(a) \/ ~TypeofObject(b) \/ IsDate(b) THEN a
  ELSE IF IsArray(a)
  THEN IF ~IsArray(b) THEN a
       ELSE IF a.frozen THEN TypeError
       ELSE [a EXCEPT !.e = a.e \o b.e]
  ELSE IF IsNull(b) THEN TypeError               \* Object.keys(null)
  ELSE mergeKeys(a, b, SetToSeq(ObjectKeys(b)))

RECURSIVE _deepCopyDates(_, _)
\* _deepCopy making a new Date of a date instead of handing it back.
_deepCopyDates(obj, ref) ==
  IF ~elv(obj) THEN [EmptyObj EXCEPT !.ref = ref]
  ELSE IF IsDate(obj) THEN [obj EXCEPT !.ref = ref, !.frozen = FALSE]
  ELSE IF ~TypeofObject(obj) THEN obj
  ELSE IF IsArray(obj)
  THEN [EmptyArr EXCEPT
          !.ref = ref,
          !.e = [i \in 1..Len(obj.e) |->
                   IF TypeofObject(obj.e[i])
                   THEN _deepCopyDates(obj.e[i], Down(ref, IdxKey(i)))
                   ELSE obj.e[i]]]
  ELSE [EmptyObj EXCEPT
          !.ref = ref,
          !.m = [k \in DOMAIN obj.m |->
                   IF TypeofObject(obj.m[k])
                   THEN _deepCopyDates(obj.m[k], Down(ref, k))
                   ELSE obj.m[k]]]

\* _deepCopy copying the outermost object only: what is nested in it is
\* handed over as it is.
_deepCopyShallow(obj, ref) ==
  IF ~elv(obj) THEN [EmptyObj EXCEPT !.ref = ref]
  ELSE IF ~TypeofObject(obj) \/ IsDate(obj) THEN obj
  ELSE [obj EXCEPT !.ref = ref, !.frozen = FALSE]

RECURSIVE _deepCopy(_, _)
\* _deepCopy(obj): the copy; ref is the identity of the object it creates
\* when it creates one.
_deepCopy(obj, ref) ==
  IF ~elv(obj) THEN [EmptyObj EXCEPT !.ref = ref]
  ELSE IF ~TypeofObject(obj) \/ IsDate(obj) THEN obj
  ELSE IF IsArray(obj)
  THEN [EmptyArr EXCEPT
          !.ref = ref,
          !.e = [i \in 1..Len(obj.e) |->
                   IF TypeofObject(obj.e[i])
                   THEN _deepCopy(obj.e[i], Down(ref, IdxKey(i)))
                   ELSE obj.e[i]]]
  ELSE [EmptyObj EXCEPT
          !.ref = ref,
          !.m = [k \in DOMAIN obj.m |->
                   IF TypeofObject(obj.m[k])
                   THEN _deepCopy(obj.m[k], Down(ref, k))
                   ELSE obj.m[k]]]

----------------------------------------------------------------------------
(* Bounds and the inputs the operations are tried on                       *)

MaxCalls     == 2    \* load() calls in one behaviour
MaxProviders == 2    \* providers given to load(), over all its calls
MaxAppends   == 1    \* append() calls that get as far as copying the value

\* A provider object: whether it has a load function and of what arity
\* (load.length), whether load calls its continuation before it returns
\* (sync) or later, and the (err, fragment) it calls it with.
Provider(sync, err, fragment) ==
  [t |-> "provider", load |-> TRUE, arity |-> 1,
   sync |-> sync, err |-> err, fragment |-> fragment]
NoLoadProvider == [t |-> "provider", load |-> FALSE, arity |-> 0,
                   sync |-> FALSE, err |-> Undefined, fragment |-> Undefined]
ArityProvider  == [t |-> "provider", load |-> TRUE, arity |-> 2,
                   sync |-> FALSE, err |-> Undefined, fragment |-> Undefined]

TestError == Obj("message" :> Str("Test"))

ProviderA    == Provider(FALSE, Undefined, Obj("baz" :> Str("qux")))
ProviderS    == Provider(TRUE, Undefined, Obj("foo" :> Obj("qux" :> Str("quux"))))
ProviderE    == Provider(FALSE, TestError, Undefined)
ProviderB    == Provider(FALSE, Null, Obj("foo" :> Str("qux")))
ProviderNull == Provider(FALSE, Undefined, Null)
ProviderC    == Provider(FALSE, Undefined, Obj("foo" :> Arr(<<Str("c")>>)))
ProviderD    == Provider(FALSE, Undefined,
                         Obj("foo" :> Arr(<<Obj("qux" :> Str("quux"))>>)))

CorePool == {ProviderA, ProviderE}

\* The providers arrays load() is tried on: every array over CorePool,
\* and some with a provider that calls back at once, that breaks the
\* contract or that hands over null.
ProviderLists ==
  UNION {[1..n -> CorePool] : n \in 0..MaxProviders}
  \cup { <<ProviderB>>, <<ProviderS>>, <<ProviderS, ProviderA>>,
         <<NoLoadProvider>>, <<ProviderA, NoLoadProvider>>,
         <<ProviderS, ArityProvider>>, <<Null>>,
         <<ProviderNull>>, <<ProviderA, ProviderNull>>,
         <<ProviderC, ProviderD>> }

\* What load() is given as providers and as callback.
ProvidersArgs == {Arr(l) : l \in ProviderLists} \cup {Null, Undefined, Num(42)}
CallbackArgs  == {Fn(1), Str("blah")}

\* What the constructor is given as options.
Seeds == { Obj("foo" :> Str("bar")),
           Obj("foo" :> Obj("bar" :> Str("baz"))),
           Obj("foo" :> Arr(<<Str("a"), Str("b")>>)),
           Arr(<<Str("a"), Str("b")>>),
           Date(1978),
           Obj("since" :> Date(1978)) }
OptionsArgs ==
  {Undefined, EmptyObj, Num(42)}
  \cup {Obj("value" :> s) : s \in Seeds \cup {Num(42), Null}}

\* What append() is given as its arguments.
AppendArgs == { <<>>,
                <<Arr(<<>>)>>,
                <<Arr(<<Obj("quux" :> Str("corge")),
                        Obj("quux" :> Str("grault") @@ "foo" :> Num(24))>>)>>,
                <<Obj("quux" :> Str("corge")),
                  Obj("quux" :> Str("grault") @@ "foo" :> Num(24))>>,
                <<Obj("quux" :> Arr(<<Obj("qux" :> Str("quux"))>>))>>,
                <<Obj("quux" :> Null)>>,
                <<Obj("baz" :> Str("qux")), Obj("quux" :> Null)>> }

\* The identities of what is handed to the store: the options object, the
\* fragment of provider i of the load() call that made copy number id, and
\* argument j of the append() call that made copy number id.  Copies made by
\* the store are numbered from 0.
OptionsRef      == Ref(-2, <<>>)
FragmentRef(id, i) == Ref(0 - (10 * id + i), <<>>)
AppendRef(id, j)   == Ref(0 - (100 + 10 * id + j), <<>>)
CopyRef(id)        == Ref(id, <<>>)

----------------------------------------------------------------------------
(* Argument checks                                                         *)

\* _isPojo(value).
_isPojo(x) == TypeofObject(x) /\ ~IsArray(x) /\ ~IsDate(x)

\* _assertOptions with _isPojo asked of options.value too.
_assertOptionsPojo(options) ==
  IF ~elv(options) THEN TRUE
  ELSE IF ~_isPojo(options) THEN FALSE
  ELSE IF HasOwn(options, "value")
  THEN _isPojo(options.m["value"]) /\ ~IsNull(options.m["value"])
  ELSE TRUE

\* _assertOptions(options) returns (TRUE) or throws TypeError (FALSE).
_assertOptions(options) ==
  IF ~elv(options) THEN TRUE
  ELSE IF ~_isPojo(options) THEN FALSE
  ELSE IF HasOwn(options, "value")
  THEN ~(~TypeofObject(options.m["value"]) \/ IsNull(options.m["value"]))
  ELSE TRUE

\* _assertCallback letting anything through.
_assertCallbackAny(callback) == TRUE

\* _assertCallback(callback) returns (TRUE) or throws TypeError (FALSE).
_assertCallback(callback) == callback.t = "function"

\* _assertProviders(providers) returns (TRUE) or throws TypeError (FALSE).
_assertProviders(providers) == IsArray(providers)

\* _assertProvider(provider) returns (TRUE) or throws TypeError (FALSE).
_assertProvider(provider) ==
  IF ~elv(provider) \/ ~provider.load THEN FALSE
  ELSE provider.arity = 1

----------------------------------------------------------------------------
(* The provider pipeline: _load and the callbacks it is given              *)
(*                                                                         *)
(* A handler runs on st = [value, events, call]: the published value, the  *)
(* emitted events and the record of the load() call it belongs to:         *)
(*   providers  the array given to load()                                  *)
(*   snap       the published value when load() was called                 *)
(*   valId, val the copy load() made of it, which the fragments are        *)
(*              merged into                                                *)
(*   waiting    the index of the provider whose load was called and whose  *)
(*              continuation has not fired yet; 0 when there is none       *)
(*   log        what the call did so far, in order                         *)
(*   cb         the calls of the callback given to load(): [err, res]      *)
(*   threw      "" or where a TypeError was thrown from: "load" (out of    *)
(*              the call of load()) or "continuation" (out of the          *)
(*              continuation a provider called later)                      *)
(*   promise    whether the call was made through loadAsync(), which       *)
(*              hands out a promise for its outcome                        *)

Logged(st, entry) == [st EXCEPT !.call.log = Append(@, entry)]

\* state.emitter.emit(name, arg), while provider i is being handled (i = 0
\* for 'done').
Emit(st, name, arg, i) ==
  Logged([st EXCEPT !.events = Append(@, [name |-> name, arg |-> arg])],
         [op |-> name, i |-> i, arg |-> arg])

\* cb(err, res) of the callback given to load(); published is the identity
\* of state.value at that moment.
Callback(st, err, res) ==
  Logged([st EXCEPT !.call.cb = Append(@, [err |-> err, res |-> res])],
         [op |-> "callback", i |-> 0, published |-> st.value.id])

\* A TypeError leaves the handler: nothing after the throw runs.
Throw(st, where) ==
  [st EXCEPT !.call.threw = where, !.call.waiting = 0]

\* What state.value holds once val was assigned to it: the object val, by
\* the identity of its outermost object and as it then is.
Published(val) == [id |-> val.ref.root, v |-> val]

\* loadCallback committing val merged into a copy of what is published
\* when the last provider has called back.
loadCallbackRebases(st, err, val) ==
  IF elv(err)
  THEN Callback(st, err, Undefined)
  ELSE LET rebased == freeze(_merge(_deepCopy(st.value.v, val.ref), val))
           st1 == Logged([st EXCEPT !.value = Published(rebased),
                                    !.call.val = rebased],
                         [op |-> "commit", i |-> 0])
           st2 == Emit(st1, "done", st1.value, 0)
       IN Callback(st2, Undefined, st2.value)

\* loadCallback with the assignment to state.value made before err is
\* looked at.
loadCallbackCommitsFirst(st, err, val) ==
  LET st1 == [st EXCEPT !.value = Published(freeze(st.call.val)),
                        !.call.val = freeze(@)]
  IN IF elv(err)
     THEN Callback(st1, err, Undefined)
     ELSE LET st2 == Emit(Logged(st1, [op |-> "commit", i |-> 0]),
                          "done", st1.value, 0)
          IN Callback(st2, Undefined, st2.value)

\* loadCallback with val assigned as it is, without Object.freeze.
loadCallbackNoFreeze(st, err, val) ==
  IF elv(err)
  THEN Callback(st, err, Undefined)
  ELSE LET st1 == Logged([st EXCEPT !.value = Published(val)],
                         [op |-> "commit", i |-> 0])
           st2 == Emit(st1, "done", st1.value, 0)
       IN Callback(st2, Undefined, st2.value)

\* The function load() gives to _load as callback (lines 235-244).
loadCallback(st, err, val) ==
  IF elv(err)
  THEN Callback(st, err, Undefined)
  ELSE LET st1 == Logged([st EXCEPT !.value = Published(freeze(val)),
                                    !.call.val = freeze(val)],
                         [op |-> "commit", i |-> 0])
           st2 == Emit(st1, "done", st1.value, 0)
       IN Callback(st2, Undefined, st2.value)

RECURSIVE _load(_, _, _)
RECURSIVE continuation(_, _, _)

\* continuation with the next provider started before the fragment is
\* merged.
continuationEager(st, i, where) ==
  LET provider == st.call.providers[i]
      st1 == Logged([st EXCEPT !.call.waiting = 0],
                    [op |-> "continuation", i |-> i])
  IN IF elv(provider.err)
     THEN loadCallback(st1, provider.err, Undefined)
     ELSE LET st2 == Emit(st1, "config", provider.fragment, i)
              nxt == _load(st2, i + 1, where)
              merged == _merge(nxt.call.val, provider.fragment)
          IN IF merged = TypeError THEN Throw(nxt, where)
             ELSE Logged([nxt EXCEPT !.call.val = merged],
                         [op |-> "merge", i |-> i])

\* continuation with 'config' emitted before err is looked at.
continuationConfigFirst(st, i, where) ==
  LET provider == st.call.providers[i]
      st1 == Logged([st EXCEPT !.call.waiting = 0],
                    [op |-> "continuation", i |-> i])
      st2 == Emit(st1, "config", provider.fragment, i)
  IN IF elv(provider.err)
     THEN loadCallback(st2, provider.err, Undefined)
     ELSE LET merged == _merge(st2.call.val, provider.fragment)
          IN IF merged = TypeError THEN Throw(st2, where)
             ELSE _load(Logged([st2 EXCEPT !.call.val = merged],
                               [op |-> "merge", i |-> i]),
                        i + 1, where)

\* continuation with the arguments of _merge swapped.
continuationSwapped(st, i, where) ==
  LET provider == st.call.providers[i]
      st1 == Logged([st EXCEPT !.call.waiting = 0],
                    [op |-> "continuation", i |-> i])
  IN IF elv(provider.err)
     THEN loadCallback(st1, provider.err, Undefined)
     ELSE LET st2 == Emit(st1, "config", provider.fragment, i)
              merged == _merge(provider.fragment, st2.call.val)
          IN IF merged = TypeError THEN Throw(st2, where)
             ELSE _load(Logged([st2 EXCEPT !.call.val = merged],
                               [op |-> "merge", i |-> i]),
                        i + 1, where)

\* continuation publishing the accumulating value after each merge.
continuationPublishes(st, i, where) ==
  LET provider == st.call.providers[i]
      st1 == Logged([st EXCEPT !.call.waiting = 0],
                    [op |-> "continuation", i |-> i])
  IN IF elv(provider.err)
     THEN loadCallback(st1, provider.err, Undefined)
     ELSE LET st2 == Emit(st1, "config", provider.fragment, i)
              merged == _merge(st2.call.val, provider.fragment)
          IN IF merged = TypeError THEN Throw(st2, where)
             ELSE _load(Logged([st2 EXCEPT !.call.val = merged,
                                           !.value = Published(merged)],
                               [op |-> "merge", i |-> i]),
                        i + 1, where)

\* continuation without the return after cb(err).
continuationNoReturn(st, i, where) ==
  LET provider == st.call.providers[i]
      st1 == Logged([st EXCEPT !.call.waiting = 0],
                    [op |-> "continuation", i |-> i])
      st1e == IF elv(provider.err)
              THEN loadCallback(st1, provider.err, Undefined) ELSE st1
      st2 == Emit(st1e, "config", provider.fragment, i)
      merged == _merge(st2.call.val, provider.fragment)
  IN IF merged = TypeError THEN Throw(st2, where)
     ELSE _load(Logged([st2 EXCEPT !.call.val = merged],
                       [op |-> "merge", i |-> i]),
                i + 1, where)

\* The continuation _load gives to provider i, called with the provider's
\* (err, fragment) (lines 177-187).  where: the call this runs under.
continuation(st, i, where) ==
  LET provider == st.call.providers[i]
      st1 == Logged([st EXCEPT !.call.waiting = 0],
                    [op |-> "continuation", i |-> i])
  IN IF elv(provider.err)
     THEN loadCallback(st1, provider.err, Undefined)
     ELSE LET st2 == Emit(st1, "config", provider.fragment, i)
              merged == _merge(st2.call.val, provider.fragment)
          IN IF merged = TypeError THEN Throw(st2, where)
             ELSE _load(Logged([st2 EXCEPT !.call.val = merged],
                               [op |-> "merge", i |-> i]),
                        i + 1, where)

\* _load validating every provider of the list before invoking the first.
_loadEager(st, i, where) ==
  IF i = 1 /\ \E k \in DOMAIN st.call.providers :
                ~_assertProvider(st.call.providers[k])
  THEN Throw(st, where)
  ELSE IF i = Len(st.call.providers) + 1
  THEN loadCallback(st, Undefined, st.call.val)
  ELSE LET provider == st.call.providers[i] IN
       IF ~_assertProvider(provider) THEN Throw(st, where)
       ELSE LET st1 == Logged(st, [op |-> "invoke", i |-> i])
            IN IF provider.sync THEN continuation(st1, i, where)
               ELSE [st1 EXCEPT !.call.waiting = i]

\* _load(value, providers, emitter, i, callback) (lines 163-188); the
\* providers are numbered from 1 here.
_load(st, i, where) ==
  IF i = Len(st.call.providers) + 1
  THEN loadCallback(st, Undefined, st.call.val)
  ELSE LET provider == st.call.providers[i] IN
       IF ~_assertProvider(provider) THEN Throw(st, where)
       ELSE LET st1 == Logged(st, [op |-> "invoke", i |-> i])
            IN IF provider.sync THEN continuation(st1, i, where)
               ELSE [st1 EXCEPT !.call.waiting = i]

----------------------------------------------------------------------------
(* The store: constructor, load, append                                    *)

\* The constructor publishing options.value itself.
constructorNoCopy(options) ==
  freeze(IF elv(options) /\ HasOwn(options, "value")
            /\ elv(options.m["value"])
         THEN options.m["value"]
         ELSE [EmptyObj EXCEPT !.ref = CopyRef(0)])

\* What the constructor publishes for options that pass _assertOptions
\* (lines 207-212): val, frozen.
constructor(options) ==
  freeze(IF elv(options) /\ HasOwn(options, "value")
            /\ elv(options.m["value"])
         THEN _deepCopy(options.m["value"], CopyRef(0))
         ELSE [EmptyObj EXCEPT !.ref = CopyRef(0)])

\* What is published where the constructor threw and there is no store.
NoStore == [id |-> -1, v |-> Undefined]

\* append() calls that copied the published value so far: every copy but
\* the constructor's is made by a load() or an append().
NumAppends == nextId - 1 - Len(calls)

RECURSIVE NumProviders(_)
\* The providers given to the load() calls cs.
NumProviders(cs) ==
  IF cs = <<>> THEN 0 ELSE Len(Head(cs).providers) + NumProviders(Tail(cs))

\* new Kibbutz(options) (lines 204-215).  The caller goes on holding
\* options.value, which Object.freeze marks when it is the object the
\* constructor publishes.
Init ==
  /\ \E literal \in OptionsArgs :
       LET options == Given(literal, OptionsRef) IN
       IF _assertOptions(options)
       THEN /\ value = Published(constructor(options))
            /\ seed = IF elv(options) /\ HasOwn(options, "value")
                      THEN IF options.m["value"].ref = value.v.ref
                           THEN value.v ELSE options.m["value"]
                      ELSE Undefined
            /\ ret = "constructed"
       ELSE /\ value = NoStore
            /\ seed = IF IsObj(options) /\ HasOwn(options, "value")
                      THEN options.m["value"] ELSE Undefined
            /\ ret = "TypeError"
  /\ nextId = 1
  /\ calls = <<>>
  /\ events = <<>>
  /\ ma = Undefined /\ mb = Undefined /\ mres = Undefined

\* The providers of an array given to load(), each with the fragment it
\* hands over as an object of its own.
Handing(providers, id) ==
  [i \in 1..Len(providers) |->
     IF providers[i].t = "provider"
     THEN [providers[i] EXCEPT !.fragment = Given(@, FragmentRef(id, i))]
     ELSE providers[i]]

\* load() merging into the published object itself instead of a copy.
loadInPlace(providers, callback) ==
  /\ value # NoStore
  /\ Len(calls) < MaxCalls
  /\ IsArray(providers) => NumProviders(calls) + Len(providers.e) <= MaxProviders
  /\ IF ~_assertProviders(providers) \/ ~_assertCallback(callback)
     THEN /\ ret' = "TypeError"
          /\ UNCHANGED <<value, nextId, calls, events>>
     ELSE LET call == [providers |-> Handing(providers.e, nextId),
                       snap |-> value,
                       valId |-> nextId,
                       val |-> value.v,
                       waiting |-> 0, log |-> <<>>, cb |-> <<>>, threw |-> "",
                       promise |-> FALSE]
              st == _load([value |-> value, events |-> events, call |-> call],
                          1, "load")
          IN /\ value' = st.value
             /\ events' = st.events
             /\ calls' = Append(calls, st.call)
             /\ nextId' = nextId + 1
             /\ ret' = IF st.call.threw = "load" THEN "TypeError" ELSE "this"
  /\ UNCHANGED <<seed, mergeVars>>

\* load(providers, callback) (lines 228-247), up to where it returns or
\* throws: every provider whose load calls its continuation before it
\* returns is run through here.
load(providers, callback) ==
  /\ value # NoStore
  /\ Len(calls) < MaxCalls
  /\ IsArray(providers) => NumProviders(calls) + Len(providers.e) <= MaxProviders
  /\ IF ~_assertProviders(providers) \/ ~_assertCallback(callback)
     THEN /\ ret' = "TypeError"
          /\ UNCHANGED <<value, nextId, calls, events>>
     ELSE LET call == [providers |-> Handing(providers.e, nextId),
                       snap |-> value,
                       valId |-> nextId,
                       val |-> _deepCopy(value.v, CopyRef(nextId)),
                       waiting |-> 0, log |-> <<>>, cb |-> <<>>, threw |-> "",
                       promise |-> FALSE]
              st == _load([value |-> value, events |-> events, call |-> call],
                          1, "load")
          IN /\ value' = st.value
             /\ events' = st.events
             /\ calls' = Append(calls, st.call)
             /\ nextId' = nextId + 1
             /\ ret' = IF st.call.threw = "load" THEN "TypeError" ELSE "this"
  /\ UNCHANGED <<seed, mergeVars>>

\* What loadAsync() is given as providers.
AsyncArgs == { Num(42), Null,
               Arr(<<Null>>), Arr(<<NoLoadProvider>>),
               Arr(<<ProviderE>>), Arr(<<ProviderA>>),
               Arr(<<ProviderA, ProviderE>>), Arr(<<ProviderS, ProviderA>>),
               Arr(<<ProviderA, NoLoadProvider>>) }

\* loadAsync(providers): load(providers, callback) with a callback that
\* settles the promise it returns; a TypeError load() throws rejects the
\* promise instead of leaving loadAsync().
loadAsync(providers) ==
  /\ value # NoStore
  /\ Len(calls) < MaxCalls
  /\ IsArray(providers) => NumProviders(calls) + Len(providers.e) <= MaxProviders
  /\ IF ~_assertProviders(providers)
     THEN /\ ret' = "rejected promise"
          /\ UNCHANGED <<value, nextId, calls, events>>
     ELSE LET call == [providers |-> Handing(providers.e, nextId),
                       snap |-> value,
                       valId |-> nextId,
                       val |-> _deepCopy(value.v, CopyRef(nextId)),
                       waiting |-> 0, log |-> <<>>, cb |-> <<>>, threw |-> "",
                       promise |-> TRUE]
              st == _load([value |-> value, events |-> events, call |-> call],
                          1, "load")
          IN /\ value' = st.value
             /\ events' = st.events
             /\ calls' = Append(calls, st.call)
             /\ nextId' = nextId + 1
             /\ ret' = "promise"
  /\ UNCHANGED <<seed, mergeVars>>

\* The promise loadAsync() call c returned, as it stands: settled by the
\* first call of the callback, rejected by a TypeError of the load.
Promise(c) ==
  IF calls[c].cb # <<>>
  THEN IF elv(calls[c].cb[1].err)
       THEN [state |-> "rejected", with |-> calls[c].cb[1].err]
       ELSE [state |-> "resolved", with |-> calls[c].cb[1].res.v]
  ELSE IF calls[c].threw # ""
  THEN [state |-> "rejected", with |-> TypeError]
  ELSE [state |-> "pending", with |-> Undefined]

\* The provider that call c waits for calls its continuation, some time
\* after its load returned; runs up to where the continuation returns or
\* throws.
providerCallsBack(c) ==
  /\ calls[c].waiting # 0
  /\ LET st == continuation([value |-> value, events |-> events,
                             call |-> calls[c]],
                            calls[c].waiting, "continuation")
     IN /\ value' = st.value
        /\ events' = st.events
        /\ calls' = [calls EXCEPT ![c] = st.call]
  /\ UNCHANGED <<seed, nextId, ret, mergeVars>>

RECURSIVE mergeAll(_, _)
\* The loops of append: _merge(value, val) for each val in turn
\* (lines 278-281 and 288-291).
mergeAll(val, vals) ==
  IF vals = <<>> THEN val
  ELSE LET step == _merge(val, Head(vals))
       IN IF step = TypeError THEN TypeError ELSE mergeAll(step, Tail(vals))

\* The values append() merges: the elements of its argument when that is
\* one array (lines 276-277), its arguments otherwise (lines 288-289).
appendVals(arguments) ==
  IF Len(arguments) = 1 /\ IsArray(arguments[1])
  THEN arguments[1].e
  ELSE arguments

\* The object append(...args) has merged into when its loop is over, or
\* the TypeError the loop threw (lines 273-291): a copy, numbered id, of
\* the published object val.
appended(val, args, id) ==
  LET arguments == [j \in 1..Len(args) |-> Given(args[j], AppendRef(id, j))]
  IN mergeAll(_deepCopy(val, CopyRef(id)), appendVals(arguments))

RECURSIVE mergeAllButFailing(_, _)
\* mergeAll that keeps what was merged before the value that throws.
mergeAllButFailing(val, vals) ==
  IF vals = <<>> THEN val
  ELSE LET step == _merge(val, Head(vals))
       IN IF step = TypeError THEN val
          ELSE mergeAllButFailing(step, Tail(vals))

\* An append that assigns state.value as it goes, so that a throw leaves
\* the values merged so far published.
appendAsItGoes(args) ==
  /\ value # NoStore
  /\ NumAppends < MaxAppends
  /\ IF Len(args) = 0
     THEN /\ ret' = "TypeError"
          /\ UNCHANGED <<value, nextId>>
     ELSE LET arguments == [j \in 1..Len(args) |->
                              Given(args[j], AppendRef(nextId, j))]
              copy == _deepCopy(value.v, CopyRef(nextId))
              merged == mergeAll(copy, appendVals(arguments))
              sofar == mergeAllButFailing(copy, appendVals(arguments))
          IN /\ nextId' = nextId + 1
             /\ value' = Published(freeze(sofar))
             /\ ret' = IF merged = TypeError THEN "TypeError" ELSE "this"
  /\ UNCHANGED <<seed, calls, events, mergeVars>>

\* append(...args) (lines 269-296); args are the literals of the arguments.
append(args) ==
  /\ value # NoStore
  /\ NumAppends < MaxAppends
  /\ IF Len(args) = 0
     THEN /\ ret' = "TypeError"
          /\ UNCHANGED <<value, nextId>>
     ELSE LET merged == appended(value.v, args, nextId)
          IN /\ nextId' = nextId + 1
             /\ IF merged = TypeError
                THEN ret' = "TypeError" /\ UNCHANGED value
                ELSE ret' = "this" /\ value' = Published(freeze(merged))
  /\ UNCHANGED <<seed, calls, events, mergeVars>>

Next ==
  \/ \E providers \in ProvidersArgs, callback \in CallbackArgs :
       load(providers, callback)
  \/ \E providers \in AsyncArgs : loadAsync(providers)
  \/ \E c \in 1..Len(calls) : providerCallsBack(c)
  \/ \E args \in AppendArgs : append(args)

Spec == Init /\ [][Next]_vars

----------------------------------------------------------------------------
(* What a load() call did, read off its log                                *)

\* The places of the log of call c where op happened for provider i.
At(c, op, i) ==
  {p \in DOMAIN calls[c].log :
     calls[c].log[p].op = op /\ calls[c].log[p].i = i}

\* The places of the log of call c where op happened.
AtOp(c, op) == {p \in DOMAIN calls[c].log : calls[c].log[p].op = op}

\* Provider i of call c called its continuation with an error.
FailedAt(c, i) ==
  At(c, "continuation", i) # {} /\ elv(calls[c].providers[i].err)

\* Some provider of call c called its continuation with an error.
Failed(c) == \E i \in DOMAIN calls[c].providers : FailedAt(c, i)

\* The providers of call c whose load was called and has not called back,
\* after the first p entries of the log.
InFlight(c, p) ==
  Cardinality({q \in AtOp(c, "invoke") : q <= p})
    - Cardinality({q \in AtOp(c, "continuation") : q <= p})

\* The object load() call c merges into is a copy it made: _deepCopy hands
\* back the published object itself when that is a date (line 131).
Copied(c) == calls[c].val.ref # calls[c].snap.v.ref

----------------------------------------------------------------------------
(* The claims about the provider pipeline                                  *)

\* C1: within one load() call the providers are invoked in list order and
\* one at a time: provider i+1 is invoked only after provider i was
\* invoked, called its continuation with success and had its fragment
\* merged, and at no moment is more than one provider of the call in
\* flight.
C1_SerialInOrder ==
  \A c \in DOMAIN calls :
    LET log == calls[c].log IN
    /\ \A p \in AtOp(c, "invoke") :
         /\ At(c, "invoke", log[p].i) = {p}
         /\ \A j \in 1..(log[p].i - 1) :
              /\ ~elv(calls[c].providers[j].err)
              /\ \E q \in At(c, "invoke", j), r \in At(c, "continuation", j),
                    m \in At(c, "merge", j) :
                   q < r /\ r < m /\ m < p
    /\ \A p \in 0..Len(log) : InFlight(c, p) \in {0, 1}
    /\ calls[c].waiting # 0 =>
         /\ InFlight(c, Len(log)) = 1
         /\ At(c, "continuation", calls[c].waiting) = {}
    /\ calls[c].waiting = 0 => InFlight(c, Len(log)) = 0

\* C1's case: the second provider of a call was invoked after the first
\* one, which called back later than its load returned.
C1_Witness ==
  \E c \in DOMAIN calls :
    /\ Len(calls[c].providers) >= 2
    /\ ~calls[c].providers[1].sync
    /\ At(c, "invoke", 2) # {}

\* C2: once provider i of a load() call has called its continuation with
\* an error, that call invokes no provider any more, so none with an index
\* greater than i is ever invoked.
C2_FailFast ==
  \A c \in DOMAIN calls :
    \A i \in DOMAIN calls[c].providers :
      FailedAt(c, i) =>
        \A q \in AtOp(c, "invoke") :
          /\ calls[c].log[q].i <= i
          /\ \A p \in At(c, "continuation", i) : q < p

\* C2's case: the first of two providers failed.
C2_Witness ==
  \E c \in DOMAIN calls :
    /\ Len(calls[c].providers) >= 2
    /\ FailedAt(c, 1)
    /\ calls[c].cb # <<>>

C4_CallbackExactlyOnce ==
  \A c \in DOMAIN calls :
    (\A i \in DOMAIN calls[c].providers :
       _assertProvider(calls[c].providers[i])) =>
      /\ Len(calls[c].cb) <= 1
      /\ calls[c].waiting = 0 =>
           /\ Len(calls[c].cb) = 1
           /\ elv(calls[c].cb[1].err) <=> calls[c].cb[1].res = Undefined

----------------------------------------------------------------------------
(* The claims about what is committed and when                             *)

\* The fragments of a load() call, in list order.
Fragments(call) ==
  [i \in DOMAIN call.providers |-> call.providers[i].fragment]

\* How many times a load() call assigned state.value.
CommitCount(call) ==
  Cardinality({p \in DOMAIN call.log : call.log[p].op = "commit"})

\* The fragment of every provider of call c was merged.
AllMerged(c) == \A i \in DOMAIN calls[c].providers : At(c, "merge", i) # {}

\* The callback of call c was called with no error.
Succeeded(c) == calls[c].cb # <<>> /\ ~elv(calls[c].cb[1].err)

\* C6: a load() call whose providers all succeeded (an empty list
\* included) commits a copy of the value that was published when load()
\* was called, with the fragments merged into it in list order; 'done'
\* carries that value, and the callback gets as second argument the very
\* object that is published at the moment it is called.
C6_CommittedValue ==
  \A c \in DOMAIN calls :
    LET log == calls[c].log
        committed ==
          Published(freeze(mergeAll(_deepCopy(calls[c].snap.v,
                                              CopyRef(calls[c].valId)),
                                    Fragments(calls[c]))))
    IN /\ AllMerged(c) <=> AtOp(c, "commit") # {}
       /\ \A p \in AtOp(c, "commit") :
            /\ \A i \in DOMAIN calls[c].providers :
                 ~elv(calls[c].providers[i].err)
            /\ calls[c].val = committed.v
            /\ log[p + 1] = [op |-> "done", i |-> 0, arg |-> committed]
            /\ \E e \in DOMAIN events :
                 events[e] = [name |-> "done", arg |-> committed]
            /\ log[p + 2].op = "callback"
            /\ calls[c].cb = <<[err |-> Undefined, res |-> committed]>>
            /\ log[p + 2].published = calls[c].cb[1].res.id

\* C6's case: a call committed the seed with two fragments merged in.
C6_Witness ==
  \E c \in DOMAIN calls :
    /\ Len(calls[c].providers) = 2
    /\ Succeeded(c)
    /\ Content(calls[c].snap.v) # EmptyObj
    /\ Content(calls[c].cb[1].res.v) # Content(calls[c].snap.v)

\* A step in which load() call c assigns state.value.
Commits(c) ==
  /\ c \in DOMAIN calls'
  /\ CommitCount(calls'[c]) = 1
  /\ c \in DOMAIN calls => CommitCount(calls[c]) = 0

\* A step that is a call of append() which gets as far as copying the
\* value (no load() call is added, and an identity is allotted).
AppendStep == calls' = calls /\ nextId' = nextId + 1

FragmentKeys(call) ==
  UNION {ObjectKeys(call.providers[i].fragment) :
           i \in {j \in DOMAIN call.providers :
                    call.providers[j].fragment.t \in {"object", "array"}}}

\* C8: load() and append() calls are not synchronised.  Each load() call
\* works on a copy of the value published when it was made, so what it
\* commits is that copy with its own fragments merged in, whatever was
\* committed since: a key that somebody else committed meanwhile and that
\* neither the call's snapshot nor its fragments hold is gone.
C8_LastCommitWins ==
  [][/\ \A c \in DOMAIN calls' \ DOMAIN calls : calls'[c].snap = value
     /\ \A c \in DOMAIN calls' :
          Commits(c) =>
            /\ value'.v = freeze(mergeAll(_deepCopy(calls'[c].snap.v,
                                                    CopyRef(calls'[c].valId)),
                                          Fragments(calls'[c])))
            /\ IsObj(value.v) =>
                 \A k \in DOMAIN value.v.m :
                   k \notin (DOMAIN calls'[c].snap.v.m)
                              \cup FragmentKeys(calls'[c])
                     => k \notin DOMAIN value'.v.m
    ]_vars

\* C8's case, the lost update: two load() calls made on the same published
\* value both succeeded, and the published value is the result of one and
\* lacks a key that the callback of the other was given.
C8_Witness ==
  \E c, d \in DOMAIN calls :
    /\ c # d
    /\ Succeeded(c) /\ Succeeded(d)
    /\ calls[c].snap.id = calls[d].snap.id
    /\ value = calls[d].cb[1].res
    /\ IsObj(value.v)
    /\ \E k \in DOMAIN calls[c].cb[1].res.v.m : k \notin DOMAIN value.v.m

----------------------------------------------------------------------------
(* _merge on its own: MergeSpec draws the two arguments and applies it     *)

Leaves == {Str("bar"), Num(42), Bool(TRUE), Null, Fn(1), Date(1), Date(2)}

\* Values nested one level down: the leaves, arrays and small mappings.
Nested ==
  Leaves
  \cup {EmptyArr, Arr(<<Str("a"), Str("b")>>), Arr(<<Str("c")>>)}
  \cup {EmptyObj, Obj("bar" :> Str("baz")), Obj("qux" :> Str("quux")),
        Obj("bar" :> Num(1)), Obj("qux" :> Null),
        Obj("bar" :> Obj("x" :> Num(1))),
        Obj("bar" :> Obj("y" :> Num(2))),
        Obj(("bar" :> Obj("x" :> Num(3))) @@ ("qux" :> Date(2)))}

MergeKeys == {"foo", "baz"}

\* The mappings with keys among MergeKeys and values among Nested.
Mappings ==
  UNION {{Obj(m) : m \in [D -> Nested]} : D \in SUBSET MergeKeys}

MergeArgs == Mappings \cup Nested \cup {Undefined}

NotCalled == [t |-> "not called"]

\* The identities of the two arguments.
TargetRef == Ref(-3, <<>>)
SourceRef == Ref(-4, <<>>)

MergeInit ==
  /\ seed = Undefined
  /\ value = Published([EmptyObj EXCEPT !.ref = CopyRef(0)])
  /\ nextId = 1
  /\ calls = <<>>
  /\ events = <<>>
  /\ ret = "constructed"
  /\ ma \in {Given(x, TargetRef) : x \in MergeArgs}
  /\ mb \in {Given(x, SourceRef) : x \in MergeArgs}
  /\ mres = NotCalled

\* mres = _merge(ma, mb).
mergeCall ==
  /\ mres = NotCalled
  /\ mres' = _merge(ma, mb)
  /\ UNCHANGED <<ma, mb, storeVars>>

MergeNext == mergeCall

MergeSpec == MergeInit /\ [][MergeNext]_vars

----------------------------------------------------------------------------
(* The claims about _merge                                                 *)

\* The values the specification calls opaque scalars.
Opaque(v) ==
  v.t \in {"number", "string", "boolean", "null", "function", "date"}

\* C9: first write wins: when mapping a holds an opaque scalar (number,
\* string, boolean, null, function or date) at key k and mapping b has key
\* k too, merging b into a leaves a[k] as it was, whatever b[k] is.
\* Stated here for the b whose only key is k.
C9_FirstWriteWins ==
  (mres # NotCalled /\ IsObj(ma) /\ IsObj(mb)) =>
    \A k \in DOMAIN ma.m :
      (Opaque(ma.m[k]) /\ DOMAIN mb.m = {k}) =>
        /\ IsObj(mres)
        /\ mres.m[k] = ma.m[k]

RECURSIVE Extended(_, _, _)
\* Mapping r is mapping t extended with mapping s: it keeps the keys that
\* only t has with their values, has the keys that only s has with the
\* values of s, and under a key of both it is, when both values are
\* mappings, the value of t extended with the value of s, and the value of
\* t when that is no mapping or array.
Extended(r, t, s) ==
  /\ IsObj(r)
  /\ DOMAIN r.m = (DOMAIN t.m) \cup (DOMAIN s.m)
  /\ \A j \in (DOMAIN t.m) \ (DOMAIN s.m) : r.m[j] = t.m[j]
  /\ \A j \in (DOMAIN s.m) \ (DOMAIN t.m) : Content(r.m[j]) = Content(s.m[j])
  /\ \A j \in (DOMAIN t.m) \cap (DOMAIN s.m) :
       IF IsObj(t.m[j]) /\ IsObj(s.m[j])
       THEN Extended(r.m[j], t.m[j], s.m[j])
       ELSE (~IsObj(t.m[j]) /\ ~IsArray(t.m[j])) => r.m[j] = t.m[j]

----------------------------------------------------------------------------
(* The claims about arrays and dates                                       *)

\* The fragments of call c that were merged so far, in list order.
Merged(c) ==
  [i \in 1..Cardinality({j \in DOMAIN calls[c].providers :
                           At(c, "merge", j) # {}}) |->
     calls[c].providers[i].fragment]

RECURSIVE ArraysAt(_, _)
\* The elements of the arrays that the mappings among fs hold at key k,
\* one array after the other.
ArraysAt(fs, k) ==
  IF fs = <<>> THEN <<>>
  ELSE (IF IsObj(Head(fs)) /\ HasOwn(Head(fs), k) /\ IsArray(Head(fs).m[k])
        THEN Content(Head(fs).m[k]).e ELSE <<>>)
       \o ArraysAt(Tail(fs), k)

\* C11: array concatenation: where the aggregate a load() call started
\* from holds an array at key k, the value the call accumulates holds at k
\* the elements of that array in their order, followed by the elements of
\* the arrays that the fragments merged so far hold at k, fragment after
\* fragment in list order and each in its own order, none left out and
\* none dropped as a duplicate.
C11_ArrayConcatenation ==
  \A c \in DOMAIN calls :
    IsObj(calls[c].snap.v) =>
      \A k \in DOMAIN calls[c].snap.v.m :
        IsArray(calls[c].snap.v.m[k]) =>
          /\ IsArray(calls[c].val.m[k])
          /\ Content(calls[c].val.m[k]).e =
               Content(calls[c].snap.v.m[k]).e \o ArraysAt(Merged(c), k)

\* C11's case: ['a', 'b'] of the seed, then ['c'] of the first provider,
\* then the element of the second, published.
C11_Witness ==
  \E c \in DOMAIN calls :
    /\ Succeeded(c)
    /\ Len(Merged(c)) = 2
    /\ IsObj(value.v) /\ HasOwn(value.v, "foo")
    /\ value = calls[c].cb[1].res
    /\ Content(value.v.m["foo"]) =
         Arr(<<Str("a"), Str("b"), Str("c"), Obj("qux" :> Str("quux"))>>)

\* C12: date atomicity: a date that the target holds at key k is still
\* there, the same object with the same time, after any source was merged
\* in and the merge returned, whether the source holds at k a mapping, an
\* array, a scalar, null or another date.
C12_DateAtomicity ==
  (mres # NotCalled /\ mres # TypeError /\ IsObj(ma) /\ IsObj(mb)) =>
    \A k \in DOMAIN ma.m :
      IsDate(ma.m[k]) =>
        /\ IsObj(mres)
        /\ mres.m[k] = ma.m[k]

\* C12's case: a date held at foo met another date at foo and stayed.
C12_Witness ==
  /\ Content(ma) = Obj("foo" :> Date(1))
  /\ Content(mb) = Obj("foo" :> Date(2))
  /\ mres # NotCalled
  /\ mres.m["foo"] = ma.m["foo"]
  /\ Content(mres.m["foo"]) = Date(1)

----------------------------------------------------------------------------
(* The claims about the published object                                   *)

\* C13: whenever there is a store, after the constructor and after any
\* load() and append() calls, succeeded or failed, the object that value
\* returns is frozen.
C13_ValueFrozen == value # NoStore => value.v.frozen

\* C13's case: a load() call committed, another one failed, and what is
\* published is the frozen object that the first one made.
C13_Witness ==
  \E c, d \in DOMAIN calls :
    /\ Succeeded(c) /\ Failed(d)
    /\ value.v.ref = calls[c].val.ref
    /\ Copied(c)
    /\ value.v.frozen

\* What a holder of the object x can try on x itself: set a key (a new one
\* or one it has), delete a key, push an element.  Each gives x as it is
\* afterwards, or TypeError where the object is frozen and the attempt
\* is rejected.
Attempts(x) ==
  IF x.frozen THEN {TypeError}
  ELSE IF IsObj(x)
  THEN {Put(x, k, Str("changed")) : k \in (DOMAIN x.m) \cup {"added"}}
       \cup {[x EXCEPT !.m = [j \in (DOMAIN x.m) \ {k} |-> x.m[j]]] :
               k \in DOMAIN x.m}
  ELSE IF IsArray(x)
  THEN {[x EXCEPT !.e = Append(@, Str("changed"))]}
       \cup {[x EXCEPT !.e[i] = Str("changed")] : i \in 1..Len(x.e)}
  ELSE {}

RECURSIVE AttemptsIn(_)
\* The same tried on x or on a mapping or array that x holds, at any
\* depth: every outcome, as x afterwards or TypeError.
AttemptsIn(x) ==
  IF IsObj(x)
  THEN Attempts(x)
       \cup UNION {{IF y = TypeError THEN TypeError
                     ELSE [x EXCEPT !.m[k] = y] : y \in AttemptsIn(x.m[k])} :
                    k \in DOMAIN x.m}
  ELSE IF IsArray(x)
  THEN Attempts(x)
       \cup UNION {{IF y = TypeError THEN TypeError
                     ELSE [x EXCEPT !.e[i] = y] : y \in AttemptsIn(x.e[i])} :
                    i \in 1..Len(x.e)}
  ELSE {}

\* C14: immutability of the published aggregate: whatever a holder of the
\* object that value returns tries on it, or on a mapping or array held in
\* it at any depth (adding, changing or removing a key or an element), the
\* attempt is rejected or leaves the object as it was, so that later reads
\* of value find the same content.
C14_Immutable ==
  value # NoStore =>
    \A after \in AttemptsIn(value.v) : after = TypeError \/ after = value.v

----------------------------------------------------------------------------
(* The claims about the constructor                                        *)

\* The state is the one the constructor left: no load() or append() call
\* was made yet.
Constructed == ret \in {"constructed"} /\ nextId = 1

\* C15, as stated: wherever there is a store, what is published is a
\* mapping, never an array and never a date.
C15_AlwaysMapping == value # NoStore => IsObj(value.v)

\* C15, amended: the published aggregate always has the kind of what the
\* constructor was given: a mapping when options.value was a mapping or
\* was not given, an array when it was an array, a date when it was a
\* date; no load() and no append() changes the kind.
C15_KindOfSeed ==
  value # NoStore =>
    value.v.t = IF seed = Undefined THEN "object" ELSE seed.t

\* C15's case: a store made with a mapping, and one made with a date, each
\* after a load() call that committed.
C15_Witness ==
  \E c \in DOMAIN calls :
    /\ Succeeded(c)
    /\ Len(calls[c].providers) >= 1
    /\ seed # Undefined
    /\ value.v.t = seed.t
    /\ value = calls[c].cb[1].res

\* C16, as stated: the constructor throws when options.value is given and
\* is no mapping (an array, a number, a string, a boolean, a date, null),
\* and there is no store then; with no options or no value given the store
\* publishes an empty mapping.
C16_SeedMustBeMapping ==
  /\ (seed # Undefined /\ ~IsObj(seed)) => value = NoStore
  /\ (Constructed /\ seed = Undefined) => Content(value.v) = EmptyObj

\* C16, amended: the constructor throws, and there is no store, when
\* options.value is given and is a number, a string, a boolean or null;
\* an array or a date is accepted like a mapping, and the store then
\* publishes a copy of the array, or the date itself; with no options or
\* no value given the store publishes an empty mapping.
C16_SeedMustBeObject ==
  /\ (seed # Undefined /\ (~TypeofObject(seed) \/ IsNull(seed)))
       => value = NoStore
  /\ (seed # Undefined /\ TypeofObject(seed) /\ ~IsNull(seed))
       => value # NoStore
  /\ Constructed =>
       /\ (IsObj(seed) \/ IsArray(seed))
            => Content(value.v) = Content(seed) /\ value.v.ref # seed.ref
       /\ IsDate(seed) => value.v = seed
       /\ (seed = Undefined /\ ret # "TypeError")
            => Content(value.v) = EmptyObj

\* C16's case: the constructor was given an array and published a copy.
C16_Witness ==
  /\ Constructed
  /\ IsArray(seed)
  /\ value # NoStore
  /\ Content(value.v) = Arr(<<Str("a"), Str("b")>>)

----------------------------------------------------------------------------
(* A store constructed on a Date                                           *)

\* Every provider of load() call c has a load function, and called its
\* continuation with no error and a mapping.
MappingsResolved(c) ==
  \A i \in DOMAIN calls[c].providers :
    LET provider == calls[c].providers[i] IN
    /\ _assertProvider(provider)
    /\ At(c, "continuation", i) # {}
    /\ ~elv(provider.err)
    /\ IsObj(provider.fragment)

----------------------------------------------------------------------------
(* Identity of the published value and of what is nested in it             *)

RECURSIVE Objects(_)
\* The objects reachable from x, x included: mappings, arrays and dates.
Objects(x) ==
  IF IsArray(x)
  THEN {x} \cup UNION {Objects(x.e[i]) : i \in DOMAIN x.e}
  ELSE IF IsObj(x)
  THEN {x} \cup UNION {Objects(x.m[k]) : k \in DOMAIN x.m}
  ELSE IF IsDate(x) THEN {x}
  ELSE {}

\* The identities of the objects reachable from x.
Refs(x) == {o.ref : o \in Objects(x)}

\* An object the caller or a provider made: options.value, an argument of
\* append, a fragment, or something nested in one of them.
Supplied(ref) == ref.root < 0

Handed(ref) == ref.root <= -10

\* C19: no mapping or array reachable from the published value is a
\* mapping or array reachable from a provider's fragment or from an
\* argument of append, so that their owner mutating them later cannot
\* change the published value.
C19_NoAliasing ==
  value # NoStore =>
    \A o \in Objects(value.v) : ~IsDate(o) => ~Handed(o.ref)

----------------------------------------------------------------------------
(* Published values that callers go on holding                             *)

\* The values published so far that a caller may hold: the one value
\* returns now, the ones it returned when each load() was called, and the
\* ones given to callbacks and to 'done' listeners.
PublishedValues ==
  {value.v}
  \cup {calls[c].snap.v : c \in DOMAIN calls}
  \cup UNION {{calls[c].cb[i].res.v :
                 i \in {k \in DOMAIN calls[c].cb :
                          calls[c].cb[k].res # Undefined}} :
              c \in DOMAIN calls}
  \cup {events[e].arg.v :
          e \in {d \in DOMAIN events : events[d].name = "done"}}

\* The published values and the values the load() calls are merging into.
LiveValues == PublishedValues \cup {calls[c].val : c \in DOMAIN calls}

\* The objects reachable from the values vs.
ObjectsOf(vs) == UNION {Objects(x) : x \in vs}

\* The commits of the load() calls so far (line 241).
CommitPlaces ==
  UNION {{<<c, p>> : p \in AtOp(c, "commit")} : c \in DOMAIN calls}

\* This step publishes: a load() call commits, or an append() returns.
Publishes ==
  \/ CommitPlaces' # CommitPlaces
  \/ Len(calls') = Len(calls) /\ nextId' = nextId + 1 /\ ret' = "this"

\* No object of a published value is different after the step: whatever
\* has the identity of one, in a published value or in a value being
\* merged into, is as it was.
Untouched ==
  \A o \in ObjectsOf(PublishedValues), n \in ObjectsOf(LiveValues') :
     n.ref = o.ref => n = o

\* C20 as stated: every step that publishes, publishes an object other
\* than the previously published one, and no step changes a published
\* value or anything nested in it.
C20_SnapshotStability ==
  [][/\ Publishes => value'.v.ref # value.v.ref
     /\ Untouched]_vars

\* C20, amended: every step that publishes, publishes an object that is
\* none of the previously published ones, unless the aggregate is a Date,
\* which is published again as it is; and no step, of a load() in flight
\* or completing or of an append(), changes a published value or anything
\* nested in it.
C20_SnapshotStabilityButDates ==
  [][/\ Publishes =>
          IF IsDate(value.v) THEN value' = value
          ELSE value'.v.ref \notin {o.ref : o \in ObjectsOf(PublishedValues)}
     /\ Untouched]_vars

C20_Witness ==
  /\ NumAppends = 1
  /\ \E c \in DOMAIN calls :
       /\ Succeeded(c)
       /\ IsObj(calls[c].snap.v)
       /\ Content(calls[c].snap.v) # EmptyObj
       /\ calls[c].snap.v.ref # calls[c].cb[1].res.v.ref
       /\ calls[c].cb[1].res.v.ref # value.v.ref
       /\ Content(calls[c].snap.v) # Content(calls[c].cb[1].res.v)
       /\ Content(calls[c].cb[1].res.v) # Content(value.v)

----------------------------------------------------------------------------
(* Invalid providers and invalid arguments of load()                       *)

\* The provider load() call c has reached: the one after those merged.
Reached(c) == Cardinality(AtOp(c, "merge")) + 1

\* _assertProvider threw in load() call c (line 175): the call threw at a
\* provider it had not invoked, one that _assertProvider rejects.
RaisedInvalidProvider(c) ==
  /\ calls[c].threw # ""
  /\ Reached(c) \in DOMAIN calls[c].providers
  /\ At(c, "invoke", Reached(c)) = {}
  /\ ~_assertProvider(calls[c].providers[Reached(c)])

\* C21: an invalid provider, at whatever index of the list, makes load()
\* itself throw: the TypeError never comes out of the continuation of the
\* provider before it, after load() has returned.
C21_ThrownByLoad ==
  \A c \in DOMAIN calls :
    RaisedInvalidProvider(c) => calls[c].threw = "load"

\* _merge threw in load() call c (line 183): the call threw right after
\* the 'config' of a fragment.
MergeThrew(c) ==
  /\ calls[c].threw # ""
  /\ calls[c].log # <<>>
  /\ calls[c].log[Len(calls[c].log)].op = "config"

\* The first provider of load() call c that _assertProvider rejects, 0
\* when there is none.
FirstInvalid(c) ==
  LET bad == {i \in DOMAIN calls[c].providers :
                ~_assertProvider(calls[c].providers[i])}
  IN IF bad = {} THEN 0 ELSE CHOOSE i \in bad : \A j \in bad : i <= j

\* What C22 says of load() call c as it stands.
LazyAt(c) ==
  LET log == calls[c].log
      i == FirstInvalid(c)
  IN /\ calls[c].threw # "" => RaisedInvalidProvider(c) \/ MergeThrew(c)
     /\ RaisedInvalidProvider(c) =>
          /\ Reached(c) = i
          /\ \A j \in 1..(i - 1) : At(c, "merge", j) # {}
     /\ i > 1 /\ (\A j \in 1..(i - 1) : At(c, "merge", j) # {}) =>
          /\ RaisedInvalidProvider(c)
          /\ \A j \in 1..(i - 1) :
               \E p \in At(c, "invoke", j), q \in At(c, "config", j) :
                 /\ p < q
                 /\ \E e \in DOMAIN events :
                      events[e] = [name |-> "config",
                                   arg |-> calls[c].providers[j].fragment]
                 /\ j > 1 => \E r \in At(c, "config", j - 1) : r < p
          /\ \A k \in i..Len(calls[c].providers) : At(c, "invoke", k) = {}
          /\ AtOp(c, "done") = {} /\ AtOp(c, "commit") = {}
          /\ calls[c].cb = <<>>
          /\ value.id # calls[c].valId

\* C22: a provider is validated only when its turn has come, after every
\* provider before it called back without error and had its fragment
\* merged.  Where the first invalid element is not the first of the list,
\* the providers before it are invoked in order, each with its 'config',
\* then the TypeError is raised; no provider from the invalid one on is
\* invoked, no 'done' is emitted, and the step that raises the TypeError
\* leaves the published value and the events as they were but for the
\* 'config' of the provider that just called back.
C22_LazyValidation ==
  [][\A c \in DOMAIN calls' :
       /\ LazyAt(c)'
       /\ RaisedInvalidProvider(c)'
            /\ ~(c \in DOMAIN calls /\ RaisedInvalidProvider(c)) =>
            /\ value' = value
            /\ \A e \in (DOMAIN events') \ (DOMAIN events) :
                 events'[e].name = "config"]_vars

C22_Witness ==
  \E c \in DOMAIN calls :
    /\ FirstInvalid(c) = 2
    /\ RaisedInvalidProvider(c)
    /\ calls[c].threw = "continuation"
    /\ At(c, "config", 1) # {}
    /\ \E d \in DOMAIN calls : d # c /\ Succeeded(d)

\* C23: load() given providers that is not an array (null and undefined
\* included) or a callback that is not a function throws a TypeError
\* before it validates or invokes a provider and before any event: no
\* call is started, nothing is emitted, the published value stays.
C23_InvalidArguments ==
  [][\A providers \in ProvidersArgs, callback \in CallbackArgs :
       (~IsArray(providers) \/ callback.t # "function")
         /\ load(providers, callback) =>
           /\ ret' = "TypeError"
           /\ UNCHANGED <<value, events, calls, nextId>>]_vars

\* A load() that threw on its arguments, after a load() and an append()
\* that published.
C23_Witness ==
  /\ ret = "TypeError"
  /\ events # <<>>
  /\ NumAppends = MaxAppends
  /\ value.id = nextId - 1
  /\ \A c \in DOMAIN calls : calls[c].valId # nextId - 1 /\ calls[c].threw = ""

----------------------------------------------------------------------------
(* append()                                                                *)

\* C24: append(v1, ..., vn) with n >= 1 publishes, before it returns, the
\* previously published content merged with v1, ..., vn in that order,
\* emits no event and returns the store; append([v1, ..., vn]) publishes
\* the same content as append(v1, ..., vn).
C24_AppendPublishes ==
  [][\A args \in AppendArgs :
       Len(appendVals(args)) >= 1 /\ append(args) =>
         LET merged == appended(value.v, args, nextId) IN
         /\ merged # TypeError
         /\ ret' = "this"
         /\ events' = events
         /\ value' = Published(freeze(merged))
         /\ Content(value'.v) = Content(mergeAll(Content(value.v), appendVals(args)))
         /\ ~(Len(args) = 1 /\ IsArray(args[1])) =>
              Content(appended(value.v, <<Arr(args)>>, nextId))
                = Content(value'.v)]_vars

\* C25: append() given no value, that is with no argument or with one
\* empty array, throws a TypeError, commits nothing and leaves the
\* published object the one it was.
C25_AppendNothing ==
  [][\A args \in AppendArgs :
       Len(appendVals(args)) = 0 /\ append(args) =>
         /\ ret' = "TypeError"
         /\ value' = value]_vars

----------------------------------------------------------------------------
(* loadAsync()                                                             *)

\* What C26 says of the promise of loadAsync() call c as it stands.
PromiseAt(c) ==
  /\ RaisedInvalidProvider(c) =>
       Promise(c) = [state |-> "rejected", with |-> TypeError]
  /\ Failed(c) =>
       /\ \E i \in DOMAIN calls[c].providers :
            /\ FailedAt(c, i)
            /\ Promise(c) = [state |-> "rejected",
                             with |-> calls[c].providers[i].err]
       /\ value.id # calls[c].valId
  /\ AllMerged(c) =>
       /\ Promise(c).state = "resolved"
       /\ Promise(c).with =
            freeze(mergeAll(_deepCopy(calls[c].snap.v, CopyRef(calls[c].valId)),
                            Fragments(calls[c])))
       /\ AtOp(c, "commit") # {}
  /\ Promise(c).state = "resolved" => AllMerged(c)
  /\ calls[c].waiting # 0 => Promise(c).state = "pending"

----------------------------------------------------------------------------
(* _merge: arguments of different kinds, absent keys, null                 *)

\* One of a, b is a mapping and the other an array.
KindMismatch(a, b) ==
  \/ IsObj(a) /\ IsArray(b)
  \/ IsArray(a) /\ IsObj(b)

\* C27: merging an array into a mapping, or a mapping into an array,
\* leaves the target as it was, at the top and at a key where the two
\* arguments hold the two kinds: no key and no element is added.
C27_KindMismatch ==
  mres # NotCalled /\ mres # TypeError =>
    /\ KindMismatch(ma, mb) => mres = ma
    /\ IsObj(ma) /\ IsObj(mb) =>
         \A k \in (DOMAIN ma.m) \cap (DOMAIN mb.m) :
           KindMismatch(ma.m[k], mb.m[k]) => mres.m[k] = ma.m[k]

\* C28: _merge does not throw, and for a key of the source that the
\* target lacks the target gets, under that key, the source's value itself
\* when that is a number, string, boolean, null, function or date, and a
\* new object of the same kind with the same content when it is a mapping
\* or an array; a source that is null or holds null does not make the
\* merge throw.
C28_NeverFails ==
  mres # NotCalled =>
    /\ mres # TypeError
    /\ IsObj(ma) /\ IsObj(mb) =>
         \A k \in (DOMAIN mb.m) \ (DOMAIN ma.m) :
           /\ k \in DOMAIN mres.m
           /\ IF Opaque(mb.m[k]) THEN mres.m[k] = mb.m[k]
              ELSE /\ mres.m[k].t = mb.m[k].t
                   /\ Content(mres.m[k]) = Content(mb.m[k])
                   /\ mres.m[k].ref # mb.m[k].ref

----------------------------------------------------------------------------
(* _deepCopy on its own: CopySpec draws the argument and applies it twice  *)

CopyArgs ==
  MergeArgs
  \cup {Arr(<<Obj("qux" :> Str("quux")), Arr(<<Str("c")>>), Date(1)>>),
        Arr(<<Null, Str("a")>>)}

CopyInit ==
  /\ seed = Undefined
  /\ value = Published([EmptyObj EXCEPT !.ref = CopyRef(0)])
  /\ nextId = 1
  /\ calls = <<>>
  /\ events = <<>>
  /\ ret = "constructed"
  /\ ma \in {Given(x, TargetRef) : x \in CopyArgs}
  /\ mb = NotCalled
  /\ mres = NotCalled

\* mres = _deepCopy(ma).
copyCall ==
  /\ mres = NotCalled
  /\ mres' = _deepCopy(ma, CopyRef(1))
  /\ UNCHANGED <<ma, mb, storeVars>>

\* mb = _deepCopy(mres).
copyAgain ==
  /\ mres # NotCalled /\ mb = NotCalled
  /\ mb' = _deepCopy(mres, CopyRef(2))
  /\ UNCHANGED <<ma, mres, storeVars>>

CopyNext == copyCall \/ copyAgain

CopySpec == CopyInit /\ [][CopyNext]_vars

\* C29: _deepCopy(v) has the content of v for every v but undefined: the
\* same keys, the same elements in the same order, and every number,
\* string, boolean, null, function and date, at the top or nested, handed
\* back as it is; _deepCopy(undefined) is a new empty mapping; so a copy
\* of a copy has the content of the copy.
C29_CloneEqual ==
  /\ mres # NotCalled =>
       /\ ma = Undefined => mres = [EmptyObj EXCEPT !.ref = CopyRef(1)]
       /\ ma # Undefined => Content(mres) = Content(ma)
       /\ Opaque(ma) => mres = ma
  /\ mb # NotCalled => Content(mb) = Content(mres)

\* C30: for a mapping or an array v, _deepCopy(v) and every mapping and
\* array nested in it is an object _deepCopy made: none is v or is nested
\* in v, and v and what is nested in v are as they were.  (A date is
\* handed over, not made.)
C30_CloneIndependent ==
  mres # NotCalled /\ (IsObj(ma) \/ IsArray(ma)) =>
    /\ \A o \in Objects(mres) :
         /\ ~IsDate(o) => o.ref.root = 1 /\ o.ref \notin Refs(ma)
         /\ \A i \in Objects(ma) : o.ref = i.ref => o = i
    /\ mb # NotCalled =>
         \A o \in Objects(mb) :
           ~IsDate(o) => o.ref.root = 2 /\ o.ref \notin Refs(mres)

C30_Witness ==
  /\ mb # NotCalled
  /\ IsObj(ma)
  /\ \E k \in DOMAIN ma.m :
       /\ IsObj(ma.m[k])
       /\ \E j \in DOMAIN ma.m[k].m : IsObj(ma.m[k].m[j])
       /\ \E j \in DOMAIN ma.m[k].m : IsDate(ma.m[k].m[j])
       /\ mres.m[k].ref # ma.m[k].ref
       /\ Content(mres.m[k]) = Content(ma.m[k])

----------------------------------------------------------------------------
(* What the store is handed stays as it was                                *)

\* The fragments the providers of the load() calls hand over.
FragmentsHanded ==
  UNION {{calls[c].providers[i].fragment :
            i \in {j \in DOMAIN calls[c].providers :
                     calls[c].providers[j] # Null}} :
         c \in DOMAIN calls}

\* vs holds nothing that is an object of gs with another content.
AsHanded(vs, gs) ==
  \A o \in ObjectsOf(vs), g \in ObjectsOf(gs) : o.ref = g.ref => o = g

\* C31: the store does not modify what it is given.  Whatever a load()
\* call merges into, and whatever is published, holds no object of a
\* provider's fragment with a content other than the fragment's own; and
\* what an append() publishes holds no object of its arguments with
\* another content than the argument's.
C31_InputsUntouched ==
  [][/\ AsHanded(LiveValues', FragmentsHanded')
     /\ \A args \in AppendArgs :
          append(args) =>
            AsHanded({value'.v},
                     {Given(args[j], AppendRef(nextId, j)) :
                        j \in DOMAIN args})]_vars

C31_Witness ==
  /\ NumAppends = 1
  /\ IsObj(value.v)
  /\ "quux" \in DOMAIN value.v.m
  /\ \E o \in Objects(value.v) : o.ref.root = AppendRef(nextId - 1, 1).root
  /\ \E c \in DOMAIN calls :
       /\ Succeeded(c) /\ Len(calls[c].providers) = 2
       /\ \E o \in Objects(calls[c].cb[1].res.v) :
            o.ref.root = FragmentRef(calls[c].valId, 2).root

\* C33: append is all-or-nothing.  When an append() call throws, at its
\* argument check or while merging any of its values, the published value
\* is afterwards the same object with the same content as before the call,
\* no object of an earlier published value has changed and no event was
\* emitted: the values merged before the failing one are not published.
C33_AllOrNothing ==
  [][\A args \in AppendArgs :
       append(args) /\ ret' = "TypeError"
         => /\ value' = value
            /\ LiveValues' = LiveValues
            /\ events' = events]_vars

\* An append() has thrown while merging, after a load() had published a
\* mapping with keys: the mapping is still the published value.
C33_Witness ==
  /\ NumAppends = 1
  /\ ret = "TypeError"
  /\ value # NoStore
  /\ IsObj(value.v)
  /\ DOMAIN value.v.m # {}
  /\ value.id < nextId - 1
  /\ \E c \in DOMAIN calls : Succeeded(c) /\ calls[c].valId = value.id

----------------------------------------------------------------------------
(* Providers that call their continuation again: RepeatSpec                *)

MaxRepeats == 1    \* second calls of a continuation in one behaviour

\* How often the continuations of load() call c were called again.
Repeats(c) ==
  Cardinality(AtOp(c, "continuation"))
    - Cardinality({i \in DOMAIN calls[c].providers :
                     At(c, "continuation", i) # {}})

RECURSIVE TotalRepeats(_)
\* The repeats of the calls 1..n.
TotalRepeats(n) == IF n = 0 THEN 0 ELSE Repeats(n) + TotalRepeats(n - 1)

\* Provider i of load() call c calls the continuation it was given once
\* more (lines 177-187 run again, on the same val).  Taken here when the
\* call has no provider in flight.
providerCallsBackAgain(c, i) ==
  /\ calls[c].waiting = 0
  /\ At(c, "continuation", i) # {}
  /\ TotalRepeats(Len(calls)) < MaxRepeats
  /\ LET st == continuation([value |-> value, events |-> events,
                             call |-> calls[c]],
                            i, "continuation")
     IN /\ value' = st.value
        /\ events' = st.events
        /\ calls' = [calls EXCEPT ![c] = st.call]
  /\ UNCHANGED <<seed, nextId, ret, mergeVars>>

RepeatNext ==
  \/ Next
  \/ \E c \in 1..Len(calls) :
       \E i \in 1..Len(calls[c].providers) : providerCallsBackAgain(c, i)

RepeatSpec == Init /\ [][RepeatNext]_vars

\* C32: within one load() call every provider's load is invoked at most
\* once and the callback is called at most once, also when a provider
\* calls its continuation again: the second call emits no 'config',
\* merges nothing, invokes no provider and brings no commit and no 'done'.
C32_AtMostOnce ==
  \A c \in DOMAIN calls :
    /\ \A i \in DOMAIN calls[c].providers :
         /\ Cardinality(At(c, "invoke", i)) <= 1
         /\ Cardinality(At(c, "config", i)) <= 1
         /\ Cardinality(At(c, "merge", i)) <= 1
    /\ Len(calls[c].cb) <= 1
    /\ Cardinality(AtOp(c, "commit")) <= 1
    /\ Cardinality(AtOp(c, "done")) <= 1

====
